---- MODULE Spec2Model ----
(***************************************************************************)
(* Model of the gannot coordinate core: SeqId ordering, GenomicRange       *)
(* construction / accessors / combine / ordering (src/src/genome.rs) and   *)
(* GFF3 attribute parsing (src/src/format.rs).                             *)
(*                                                                         *)
(* Text is modelled as a sequence of one-character strings.  Unsigned      *)
(* integers (u32, u64) are modelled as sequences of decimal digits, most   *)
(* significant first, without leading zeros (zero is <<0>>), because the   *)
(* values at the edge of u32 and u64 do not fit a TLC integer.             *)
(***************************************************************************)
EXTENDS Integers, Sequences, FiniteSets, TLC

VARIABLES op, args, result, held

vars == <<op, args, result, held>>

(***************************************************************************)
(* Bounds of the model.                                                    *)
(***************************************************************************)
MaxSeqIdLen == 2

\* Coordinates are 0..MaxCoord and u64::MAX.
MaxCoord == 1

\* Largest number of ranges a caller holds at once.
MaxHeld == 3

\* Longest locus text drawn from the locus alphabet.
MaxLocusLen == 5

\* Attribute fields have at most MaxPieces pieces between ';' of at most
\* MaxPieceLen characters each.
MaxPieces == 3

MaxPieceLen == 2

(***************************************************************************)
(* Text.                                                                   *)
(***************************************************************************)
\* UTF-8 byte of each character the model uses; String::cmp compares bytes.
Byte ==
  ("+" :> 43) @@ ("-" :> 45) @@ ("0" :> 48) @@ ("1" :> 49) @@ ("2" :> 50) @@
  ("3" :> 51) @@ ("4" :> 52) @@ ("5" :> 53) @@ ("6" :> 54) @@ ("7" :> 55) @@
  ("8" :> 56) @@ ("9" :> 57) @@ (":" :> 58) @@ (";" :> 59) @@ ("=" :> 61) @@
  ("B" :> 66) @@ ("D" :> 68) @@ ("F" :> 70) @@ ("I" :> 73) @@ ("N" :> 78) @@
  ("a" :> 97) @@ ("b" :> 98) @@ ("c" :> 99) @@ ("d" :> 100) @@ ("e" :> 101) @@
  ("g" :> 103) @@ ("h" :> 104) @@ ("m" :> 109) @@ ("n" :> 110) @@
  ("o" :> 111) @@ ("r" :> 114)

DigitChars == {"0", "1", "2", "3", "4", "5", "6", "7", "8", "9"}

DigitVal(c) == Byte[c] - Byte["0"]

\* All texts over alphabet of length at most n.
TextsUpTo(alphabet, n) == UNION {[1..k -> alphabet] : k \in 0..n}

\* Ordering of two sequences of integers: first differing element decides,
\* a proper prefix is Less.
RECURSIVE SeqCmp(_, _)
SeqCmp(x, y) ==
  IF x = <<>> /\ y = <<>> THEN "Equal"
  ELSE IF x = <<>> THEN "Less"
  ELSE IF y = <<>> THEN "Greater"
  ELSE IF Head(x) < Head(y) THEN "Less"
  ELSE IF Head(x) > Head(y) THEN "Greater"
  ELSE SeqCmp(Tail(x), Tail(y))

\* String::cmp: lexicographic comparison of the bytes.
StrCmp(s, t) ==
  SeqCmp([i \in DOMAIN s |-> Byte[s[i]]], [i \in DOMAIN t |-> Byte[t[i]]])

(***************************************************************************)
(* Unsigned integers as decimal digit sequences.                           *)
(***************************************************************************)
RECURSIVE StripZeros(_)
StripZeros(ds) ==
  IF Len(ds) > 1 /\ Head(ds) = 0 THEN StripZeros(Tail(ds)) ELSE ds

\* Ordering of two unsigned integers (u32::cmp, u64::cmp).
NatCmp(x, y) ==
  IF Len(x) < Len(y) THEN "Less"
  ELSE IF Len(x) > Len(y) THEN "Greater"
  ELSE SeqCmp(x, y)

U32_MAX == <<4, 2, 9, 4, 9, 6, 7, 2, 9, 5>>

U64_MAX == <<1, 8, 4, 4, 6, 7, 4, 4, 0, 7, 3, 7, 0, 9, 5, 5, 1, 6, 1, 5>>

\* str::parse for an unsigned type with largest value max: an optional
\* leading '+', then one or more decimal digits and nothing else; the value
\* must not exceed max.
ParseUnsigned(s, max) ==
  LET digits == IF s # <<>> /\ Head(s) = "+" THEN Tail(s) ELSE s
  IN IF digits = <<>> \/ \E i \in DOMAIN digits : digits[i] \notin DigitChars
     THEN [ok |-> FALSE]
     ELSE LET val == StripZeros([i \in DOMAIN digits |-> DigitVal(digits[i])])
          IN IF NatCmp(val, max) = "Greater"
             THEN [ok |-> FALSE]
             ELSE [ok |-> TRUE, val |-> val]

ParseU32(s) == ParseUnsigned(s, U32_MAX)

ParseU64(s) == ParseUnsigned(s, U64_MAX)

(***************************************************************************)
(* SeqId.                                                                  *)
(***************************************************************************)
\* SeqId ordering that never takes the numeric branch.
SeqIdCmpLexOnly(a, b) == StrCmp(a, b)

\* impl Ord for SeqId
SeqIdCmp(a, b) ==
  LET ord == StrCmp(a, b)
  IN IF ord = "Equal" THEN "Equal"
     ELSE IF ParseU32(a).ok /\ ParseU32(b).ok
          THEN NatCmp(ParseU32(a).val, ParseU32(b).val)
          ELSE ord

SeqIdAlphabet == {"0", "1", "a"}

SeqIdSamples ==
  { <<"2">>, <<"5">>, <<"0", "5">>, <<"+", "5">>,
    <<"c", "h", "r", "2">>, <<"c", "h", "r", "1", "0">>,
    <<"4", "2", "9", "4", "9", "6", "7", "2", "9", "5">>,
    <<"4", "2", "9", "4", "9", "6", "7", "2", "9", "6">>,
    <<"5", "0", "0", "0", "0", "0", "0", "0", "0", "0">> }

SeqIds == TextsUpTo(SeqIdAlphabet, MaxSeqIdLen) \cup SeqIdSamples

NoResult == [tag |-> "None"]

\* A caller holds three SeqIds and has not compared them yet.
InitSeqId ==
  /\ op = "none"
  /\ args \in [a : SeqIds, b : SeqIds, c : SeqIds]
  /\ result = NoResult
  /\ held = {}

\* The caller compares the SeqIds pairwise.
CompareSeqIds ==
  /\ op = "none"
  /\ op' = "SeqId::cmp"
  /\ result' = [tag |-> "Ord",
                ab |-> SeqIdCmp(args.a, args.b),
                ba |-> SeqIdCmp(args.b, args.a),
                bc |-> SeqIdCmp(args.b, args.c),
                ac |-> SeqIdCmp(args.a, args.c)]
  /\ UNCHANGED <<args, held>>

NextSeqId == CompareSeqIds

SpecSeqId == InitSeqId /\ [][NextSeqId]_vars

Reverse(ord) ==
  CASE ord = "Less" -> "Greater"
    [] ord = "Greater" -> "Less"
    [] OTHER -> "Equal"

Txt2 == <<"2">>
Txt5 == <<"5">>
Txt10 == <<"1", "0">>
Txt1a == <<"1", "a">>
TxtChr2 == <<"c", "h", "r", "2">>
TxtChr10 == <<"c", "h", "r", "1", "0">>
TxtOverU32 == <<"4", "2", "9", "4", "9", "6", "7", "2", "9", "6">>

\* C1: SeqId::cmp is a total order consistent with equality: cmp(a,b) is
\* Equal exactly when a and b are the same string, cmp(a,b) is the reverse of
\* cmp(b,a), and a < b with b < c implies a < c.
C1_TotalOrder ==
  op = "SeqId::cmp" =>
    /\ (result.ab = "Equal" <=> args.a = args.b)
    /\ result.ba = Reverse(result.ab)
    /\ (result.ab = "Less" /\ result.bc = "Less" => result.ac = "Less")

\* The precedence of C6 for one pair of SeqIds.
PrecedenceOrd(x, y) ==
  IF x = y THEN "Equal"
  ELSE IF ParseU32(x).ok /\ ParseU32(y).ok
       THEN NatCmp(ParseU32(x).val, ParseU32(y).val)
       ELSE StrCmp(x, y)

Zero == <<0>>

Front(ds) == SubSeq(ds, 1, Len(ds) - 1)

Last(ds) == ds[Len(ds)]

\* x + 1 over the naturals.
RECURSIVE NatSucc(_)
NatSucc(x) ==
  IF x = <<>> THEN <<1>>
  ELSE IF Last(x) = 9 THEN Append(NatSucc(Front(x)), 0)
  ELSE Append(Front(x), Last(x) + 1)

RECURSIVE Borrow(_)
Borrow(x) ==
  IF Last(x) = 0 THEN Append(Borrow(Front(x)), 9)
  ELSE Append(Front(x), Last(x) - 1)

\* x - 1 over the naturals, for x > 0.
NatPred(x) == StripZeros(Borrow(x))

\* The digits of a small natural number.
RECURSIVE ToNat(_)
ToNat(n) == IF n < 10 THEN <<n>> ELSE Append(ToNat(n \div 10), n % 10)

NatLeq(x, y) == NatCmp(x, y) # "Greater"

NatMin(x, y) == IF NatLeq(x, y) THEN x ELSE y

NatMax(x, y) == IF NatLeq(x, y) THEN y ELSE x

Ok(v) == [tag |-> "Ok", value |-> v]

\* Err(Error::InvalidArguments(message))
InvalidArguments(message) ==
  [tag |-> "Err", error |-> "InvalidArguments", message |-> message]

IsInvalidArguments(r) == r.tag = "Err" /\ r.error = "InvalidArguments"

Panic == [tag |-> "Panic"]

\* `x - 1` on u64.  At x = 0 the subtraction overflows: a build with overflow
\* checks aborts, a build without them wraps to u64::MAX.
U64Sub1(x) == IF x = Zero THEN {Panic, Ok(U64_MAX)} ELSE {Ok(NatPred(x))}

\* `x + 1` on u64.  At x = u64::MAX the addition overflows: a build with
\* overflow checks aborts, a build without them wraps to 0.
U64Add1(x) == IF x = U64_MAX THEN {Panic, Ok(Zero)} ELSE {Ok(NatSucc(x))}

(***************************************************************************)
(* GenomicRange: stored 0-based, open on the right.                        *)
(***************************************************************************)
GenomicRange(seqid, start, end) ==
  [seqid |-> seqid, start |-> start, end |-> end]

\* std::ops::Range and std::ops::RangeInclusive values.
Range(start, end) == [kind |-> "Range", start |-> start, end |-> end]

RangeInclusive(start, end) ==
  [kind |-> "RangeInclusive", start |-> start, end |-> end]

\* GenomicRange::from_0halfopen
From0HalfOpen(seqid, start, end) == {Ok(GenomicRange(seqid, start, end))}

\* from_1closed that stores the 1-based start as it is.
From1ClosedNoShift(seqid, start, end) ==
  IF start = Zero
  THEN {InvalidArguments("1-based coordinates can't start with 0")}
  ELSE {Ok(GenomicRange(seqid, start, end))}

\* GenomicRange::from_1closed
From1Closed(seqid, start, end) ==
  IF start = Zero
  THEN {InvalidArguments("1-based coordinates can't start with 0")}
  ELSE {IF o.tag = "Ok" THEN Ok(GenomicRange(seqid, o.value, end)) ELSE o :
          o \in U64Sub1(start)}

\* GenomicRange::from_gff_row; the row's other columns are not read.
FromGffRow(row) ==
  {IF o.tag = "Ok" THEN Ok(GenomicRange(row.seqid, o.value, row.end)) ELSE o :
     o \in U64Sub1(row.start)}

\* GenomicRange::from_bed_row
FromBedRow(row) ==
  {Ok(GenomicRange(row.chrom, row.chrom_start, row.chrom_end))}

\* combine that tests the SeqIds with their ordering instead of equality.
CombineByOrd(self, other) ==
  IF SeqIdCmp(self.seqid, other.seqid) # "Equal"
  THEN InvalidArguments("can only combine GenomicRanges with the same seqid")
  ELSE Ok(GenomicRange(self.seqid,
                       NatMin(self.start, other.start),
                       NatMax(self.end, other.end)))

\* combine that returns the intersection instead of the bounding union.
CombineIntersect(self, other) ==
  IF self.seqid # other.seqid
  THEN InvalidArguments("can only combine GenomicRanges with the same seqid")
  ELSE Ok(GenomicRange(self.seqid,
                       NatMax(self.start, other.start),
                       NatMin(self.end, other.end)))

\* GenomicRange::combine
Combine(self, other) ==
  IF self.seqid # other.seqid
  THEN InvalidArguments("can only combine GenomicRanges with the same seqid")
  ELSE Ok(GenomicRange(self.seqid,
                       NatMin(self.start, other.start),
                       NatMax(self.end, other.end)))

\* GenomicRange::range_1closed
Range1Closed(self) ==
  {IF o.tag = "Ok" THEN Ok(RangeInclusive(o.value, self.end)) ELSE o :
     o \in U64Add1(self.start)}

\* GenomicRange::range_0halfopen
Range0HalfOpen(self) == {Ok(Range(self.start, self.end))}

\* GenomicRange::range_0closed
Range0Closed(self) ==
  IF NatCmp(self.end, self.start) # "Greater" THEN {Panic}
  ELSE {IF o.tag = "Ok" THEN Ok(RangeInclusive(self.start, o.value)) ELSE o :
          o \in U64Sub1(self.end)}

\* Range ordering that looks at the end before the start.
GenomicRangeCmpEndFirst(self, other) ==
  IF SeqIdCmp(self.seqid, other.seqid) # "Equal"
  THEN SeqIdCmp(self.seqid, other.seqid)
  ELSE IF NatCmp(self.end, other.end) # "Equal"
       THEN NatCmp(self.end, other.end)
       ELSE NatCmp(self.start, other.start)

\* impl Ord for GenomicRange
GenomicRangeCmp(self, other) ==
  IF SeqIdCmp(self.seqid, other.seqid) # "Equal"
  THEN SeqIdCmp(self.seqid, other.seqid)
  ELSE IF NatCmp(self.start, other.start) # "Equal"
       THEN NatCmp(self.start, other.start)
       ELSE NatCmp(self.end, other.end)

(***************************************************************************)
(* A caller that builds ranges, keeps the ones it obtained and calls the   *)
(* operations of GenomicRange on them.                                     *)
(***************************************************************************)
Coords == {ToNat(n) : n \in 0..MaxCoord} \cup {U64_MAX}

\* Two SeqIds that differ as strings and compare Equal.
RangeSeqIds == {<<"2">>, <<"0", "2">>}

\* The columns of a GFF3 row that from_gff_row reads.
Gff3Rows == [seqid : RangeSeqIds, start : Coords, end : Coords]

\* What the BedRow capability reports for a row.
BedRows == [chrom : RangeSeqIds, chrom_start : Coords, chrom_end : Coords]

InitRange ==
  /\ op = "none"
  /\ args = <<>>
  /\ result = NoResult
  /\ held = {}

\* One call: its name, arguments and outcome are recorded and the caller
\* holds newHeld afterwards.  Nothing runs after an abort.
Call(name, a, outcome, newHeld) ==
  /\ result.tag # "Panic"
  /\ Cardinality(newHeld) <= MaxHeld
  /\ op' = name
  /\ args' = a
  /\ result' = outcome
  /\ held' = newHeld

\* The caller keeps a range it was given.
Keep(outcome) ==
  IF outcome.tag = "Ok" THEN held \cup {outcome.value} ELSE held

CallFrom0HalfOpen(seqid, start, end) ==
  \E o \in From0HalfOpen(seqid, start, end) :
    Call("from_0halfopen", [seqid |-> seqid, start |-> start, end |-> end],
         o, Keep(o))

CallFrom1Closed(seqid, start, end) ==
  \E o \in From1Closed(seqid, start, end) :
    Call("from_1closed", [seqid |-> seqid, start |-> start, end |-> end],
         o, Keep(o))

CallFromGffRow(row) ==
  \E o \in FromGffRow(row) : Call("from_gff_row", [row |-> row], o, Keep(o))

CallFromBedRow(row) ==
  \E o \in FromBedRow(row) : Call("from_bed_row", [row |-> row], o, Keep(o))

CallCombine(self, other) ==
  Call("combine", [self |-> self, other |-> other],
       Combine(self, other), Keep(Combine(self, other)))

CallRange1Closed(self) ==
  \E o \in Range1Closed(self) :
    Call("range_1closed", [self |-> self], o, held)

CallRange0HalfOpen(self) ==
  \E o \in Range0HalfOpen(self) :
    Call("range_0halfopen", [self |-> self], o, held)

CallRange0Closed(self) ==
  \E o \in Range0Closed(self) :
    Call("range_0closed", [self |-> self], o, held)

NextRange ==
  \/ \E seqid \in RangeSeqIds, start, end \in Coords :
       CallFrom0HalfOpen(seqid, start, end)
  \/ \E seqid \in RangeSeqIds, start, end \in Coords :
       CallFrom1Closed(seqid, start, end)
  \/ \E row \in Gff3Rows : CallFromGffRow(row)
  \/ \E row \in BedRows : CallFromBedRow(row)
  \/ \E self, other \in held : CallCombine(self, other)
  \/ \E self \in held : CallRange1Closed(self)
  \/ \E self \in held : CallRange0HalfOpen(self)
  \/ \E self \in held : CallRange0Closed(self)

SpecRange == InitRange /\ [][NextRange]_vars

(***************************************************************************)
(* A caller that compares two ranges.                                      *)
(***************************************************************************)
CmpSeqIds == {<<"2">>, <<"1", "0">>, <<"0", "2">>, <<"1", "a">>}

\* Every range over these SeqIds and coordinates is what from_0halfopen
\* returns for them.
CmpRanges == [seqid : CmpSeqIds, start : Coords, end : Coords]

InitRangeCmp ==
  /\ op = "none"
  /\ args \in [self : CmpRanges, other : CmpRanges]
  /\ result = NoResult
  /\ held = {args.self, args.other}

CompareRanges ==
  /\ op = "none"
  /\ op' = "GenomicRange::cmp"
  /\ result' = [tag |-> "Ord", ord |-> GenomicRangeCmp(args.self, args.other)]
  /\ UNCHANGED <<args, held>>

NextRangeCmp == CompareRanges

SpecRangeCmp == InitRangeCmp /\ [][NextRangeCmp]_vars

\* The same caller when every range it builds is given ordered bounds and it
\* builds none from GFF3 rows.
NextOrdered ==
  \/ \E seqid \in RangeSeqIds, start, end \in Coords :
       /\ NatLeq(start, end)
       /\ CallFrom0HalfOpen(seqid, start, end)
  \/ \E seqid \in RangeSeqIds, start, end \in Coords :
       /\ NatLeq(<<1>>, start) /\ NatLeq(start, end)
       /\ CallFrom1Closed(seqid, start, end)
  \/ \E row \in BedRows :
       /\ NatLeq(row.chrom_start, row.chrom_end)
       /\ CallFromBedRow(row)
  \/ \E self, other \in held : CallCombine(self, other)

SpecOrdered == InitRange /\ [][NextOrdered]_vars

(***************************************************************************)
(* Properties of GenomicRange.                                             *)
(***************************************************************************)
\* C2: from_gff_row is total: for every row it returns a range (it never
\* aborts) whose seqid is the row's and whose 0-based half-open view is
\* row.start - 1 .. row.end.
C2_GffRowTotal ==
  op = "from_gff_row" =>
    /\ result.tag = "Ok"
    /\ result.value.seqid = args.row.seqid
    /\ NatSucc(result.value.start) = args.row.start
    /\ result.value.end = args.row.end
    /\ Range0HalfOpen(result.value) =
         {Ok(Range(result.value.start, args.row.end))}

\* C3: from_1closed fails with InvalidArguments exactly when start = 0; for
\* start >= 1 it returns a range whose 0-based half-open view is
\* start - 1 .. end and, when end >= start, whose 1-based closed view is
\* start ..= end again.
C3_From1Closed ==
  op = "from_1closed" =>
    /\ (IsInvalidArguments(result) <=> args.start = Zero)
    /\ (args.start # Zero =>
          /\ result.tag = "Ok"
          /\ result.value.seqid = args.seqid
          /\ NatSucc(result.value.start) = args.start
          /\ result.value.end = args.end
          /\ Range0HalfOpen(result.value) =
               {Ok(Range(result.value.start, args.end))}
          /\ (NatLeq(args.start, args.end) =>
                Range1Closed(result.value) =
                  {Ok(RangeInclusive(args.start, args.end))}))

\* from_1closed was given 1 ..= u64::MAX and returned 0 .. u64::MAX.
C3_Witness ==
  /\ op = "from_1closed"
  /\ args.start = <<1>> /\ args.end = U64_MAX
  /\ result = Ok(GenomicRange(args.seqid, Zero, U64_MAX))
  /\ result.value \in held

\* C4: combine succeeds exactly when the two seqids are the same string, and
\* then returns the range on that seqid from the smaller start to the larger
\* end; otherwise it fails with InvalidArguments and returns no range; the
\* operands are what they were.
C4_Combine ==
  op = "combine" =>
    /\ (result.tag = "Ok" <=> args.self.seqid = args.other.seqid)
    /\ (result.tag = "Ok" =>
          /\ result.value.seqid = args.self.seqid
          /\ result.value.start \in {args.self.start, args.other.start}
          /\ NatLeq(result.value.start, args.self.start)
          /\ NatLeq(result.value.start, args.other.start)
          /\ result.value.end \in {args.self.end, args.other.end}
          /\ NatLeq(args.self.end, result.value.end)
          /\ NatLeq(args.other.end, result.value.end))
    /\ (result.tag # "Ok" => IsInvalidArguments(result))
    /\ args.self \in held /\ args.other \in held

\* combine returned a range that is neither operand.
C4_Witness ==
  /\ op = "combine"
  /\ result.tag = "Ok"
  /\ result.value \notin {args.self, args.other}
  /\ result.value.start = args.self.start
  /\ result.value.end = args.other.end

Accessors == {"range_1closed", "range_0halfopen", "range_0closed"}

\* C8: the accessors are views of the stored interval and leave the range
\* alone: range_0halfopen returns start..end, range_1closed returns
\* start+1..=end, range_0closed returns start..=end-1 when end > start and
\* aborts when end <= start.
C8_Accessors ==
  op \in Accessors =>
    /\ args.self \in held
    /\ (op = "range_0halfopen" =>
          result = Ok(Range(args.self.start, args.self.end)))
    /\ (op = "range_1closed" =>
          result = Ok(RangeInclusive(NatSucc(args.self.start), args.self.end)))
    /\ (op = "range_0closed" =>
          IF NatCmp(args.self.end, args.self.start) = "Greater"
          THEN /\ result.tag = "Ok"
               /\ result.value.kind = "RangeInclusive"
               /\ result.value.start = args.self.start
               /\ NatSucc(result.value.end) = args.self.end
          ELSE result = Panic)

\* C9: two ranges are ordered by the SeqId ordering of their seqids, then,
\* when these compare Equal, by start, then, when the starts are equal, by
\* end.
C9_RangeOrder ==
  op = "GenomicRange::cmp" =>
    LET bySeqId == SeqIdCmp(args.self.seqid, args.other.seqid)
        byStart == NatCmp(args.self.start, args.other.start)
        byEnd == NatCmp(args.self.end, args.other.end)
    IN /\ (bySeqId # "Equal" => result.ord = bySeqId)
       /\ (bySeqId = "Equal" /\ byStart # "Equal" => result.ord = byStart)
       /\ (bySeqId = "Equal" /\ byStart = "Equal" => result.ord = byEnd)

\* Two ranges whose seqids differ as strings and compare Equal, where the
\* start says Less and the end says Greater.
C9_Witness ==
  /\ op = "GenomicRange::cmp"
  /\ args.self.seqid # args.other.seqid
  /\ SeqIdCmp(args.self.seqid, args.other.seqid) = "Equal"
  /\ NatCmp(args.self.start, args.other.start) = "Less"
  /\ NatCmp(args.self.end, args.other.end) = "Greater"
  /\ result.ord = "Less"

\* C10: when every range is built with ordered bounds and successful
\* combines are applied to ranges already obtained, every range held has
\* start <= end; a combine result has the seqid of its operands and covers
\* both, is the same whichever operand is the receiver, and combining a range
\* with itself returns that range.
C10_OrderedRanges ==
  /\ \A r \in held : NatLeq(r.start, r.end)
  /\ (op = "combine" /\ result.tag = "Ok" =>
        /\ result.value \in held
        /\ result.value.seqid = args.self.seqid
        /\ result.value.seqid = args.other.seqid
        /\ NatLeq(result.value.start, args.self.start)
        /\ NatLeq(result.value.start, args.other.start)
        /\ NatLeq(args.self.end, result.value.end)
        /\ NatLeq(args.other.end, result.value.end)
        /\ Combine(args.other, args.self) = result
        /\ (args.self = args.other => result.value = args.self))

\* Two disjoint ranges were combined into a third one, which is held.
C10_Witness ==
  /\ op = "combine"
  /\ result.tag = "Ok"
  /\ NatCmp(args.self.end, args.other.start) = "Less"
  /\ result.value \notin {args.self, args.other}
  /\ result.value \in held

(***************************************************************************)
(* Splitting text.                                                         *)
(***************************************************************************)
\* Position of the first sep in s, 0 when there is none.
FirstIndex(s, sep) ==
  IF \E i \in DOMAIN s : s[i] = sep
  THEN CHOOSE i \in DOMAIN s : s[i] = sep /\ \A j \in 1..(i - 1) : s[j] # sep
  ELSE 0

\* str::split(sep) collected: the pieces between the separators, one more
\* than there are separators.
RECURSIVE Split(_, _)
Split(s, sep) ==
  LET i == FirstIndex(s, sep)
  IN IF i = 0 THEN <<s>>
     ELSE <<SubSeq(s, 1, i - 1)>> \o Split(SubSeq(s, i + 1, Len(s)), sep)

\* str::splitn(2, sep) collected: split at the first separator only.
SplitN2(s, sep) ==
  LET i == FirstIndex(s, sep)
  IN IF i = 0 THEN <<s>>
     ELSE <<SubSeq(s, 1, i - 1), SubSeq(s, i + 1, Len(s))>>

RECURSIVE Join(_, _)
Join(pieces, sep) ==
  IF Len(pieces) = 1 THEN pieces[1]
  ELSE pieces[1] \o <<sep>> \o Join(Tail(pieces), sep)

(***************************************************************************)
(* Locus text: TryFrom<&str> for GenomicRange.                             *)
(***************************************************************************)
LocusHint == "location should be in the form <seqid>:<start>-<end>"

\* try_from that reads the bounds as 0-based half-open.
TryFromStrHalfOpen(value) ==
  LET values == Split(value, ":")
  IN IF Len(values) = 2
     THEN LET bounds == Split(values[2], "-")
          IN IF Len(bounds) = 2 /\ ParseU64(bounds[1]).ok
                                /\ ParseU64(bounds[2]).ok
             THEN From0HalfOpen(values[1], ParseU64(bounds[1]).val,
                                ParseU64(bounds[2]).val)
             ELSE {InvalidArguments(LocusHint)}
     ELSE {InvalidArguments(LocusHint)}

\* impl TryFrom<&str> for GenomicRange
TryFromStr(value) ==
  LET values == Split(value, ":")
  IN IF Len(values) = 2
     THEN LET seqid == values[1]
              bounds == Split(values[2], "-")
          IN IF Len(bounds) = 2
             THEN LET start == ParseU64(bounds[1])
                      end == ParseU64(bounds[2])
                  IN IF start.ok /\ end.ok
                     THEN From1Closed(seqid, start.val, end.val)
                     ELSE {InvalidArguments(LocusHint)}
             ELSE {InvalidArguments(LocusHint)}
     ELSE {InvalidArguments(LocusHint)}

LocusAlphabet == {"a", ":", "-", "0", "1"}

U64MaxText ==
  <<"1", "8", "4", "4", "6", "7", "4", "4", "0", "7",
    "3", "7", "0", "9", "5", "5", "1", "6", "1", "5">>

U64OverText ==
  <<"1", "8", "4", "4", "6", "7", "4", "4", "0", "7",
    "3", "7", "0", "9", "5", "5", "1", "6", "1", "6">>

LocusChr1_100_200 ==
  <<"c", "h", "r", "1", ":", "1", "0", "0", "-", "2", "0", "0">>

LocusSamples ==
  { LocusChr1_100_200,
    <<"c", "h", "r", "1", ":", "1", "0", "0">>,
    <<"c", "h", "r", "1", ":", "a", "b", "c", "-", "2", "0", "0">>,
    <<"a", "-", "a", ":", "1", "-", "1", "0">>,
    <<"a", ":", "1", "-", "1", "-", "1">>,
    <<"a", ":", "a", ":", "1", "-", "1">>,
    <<"a", ":", "+", "1", "-", "+", "2">>,
    <<"a", ":", "0", "0", "1", "-", "0">>,
    <<"a", ":", "1", "-">> \o U64MaxText,
    <<"a", ":">> \o U64MaxText \o <<"-">> \o U64MaxText,
    <<"a", ":", "1", "-">> \o U64OverText,
    <<"a", ":">> \o U64OverText \o <<"-", "1">> }

LocusTexts == TextsUpTo(LocusAlphabet, MaxLocusLen) \cup LocusSamples

InitLocus ==
  /\ op = "none"
  /\ args \in [value : LocusTexts]
  /\ result = NoResult
  /\ held = {}

ParseLocus ==
  /\ op = "none"
  /\ \E o \in TryFromStr(args.value) :
       /\ op' = "try_from"
       /\ result' = o
       /\ held' = Keep(o)
  /\ UNCHANGED args

NextLocus == ParseLocus

SpecLocus == InitLocus /\ [][NextLocus]_vars

\* The ways to read v as <seqid>:<start>-<end>: the position of the only ':'
\* and of a '-' after it whose two sides parse as u64.
LocusShapes(v) ==
  { <<i, j>> \in (DOMAIN v) \X (DOMAIN v) :
      /\ v[i] = ":" /\ \A k \in DOMAIN v : v[k] = ":" => k = i
      /\ j > i /\ v[j] = "-"
      /\ ParseU64(SubSeq(v, i + 1, j - 1)).ok
      /\ ParseU64(SubSeq(v, j + 1, Len(v))).ok }

\* C5: a locus text parses exactly when it has the shape
\* <seqid>:<start>-<end> with one ':', one '-' between two parts that parse
\* as u64, and start >= 1; the result is then 1-based closed start..=end,
\* that is 0-based half-open start-1..end, on that seqid.  Every other text
\* fails with InvalidArguments; nothing aborts.
C5_LocusParsing ==
  op = "try_from" =>
    LET v == args.value
        shapes == LocusShapes(v)
        good == {sh \in shapes :
                   ParseU64(SubSeq(v, sh[1] + 1, sh[2] - 1)).val # Zero}
    IN /\ Cardinality(shapes) <= 1
       /\ (result.tag = "Ok" <=> good # {})
       /\ (result.tag # "Ok" => IsInvalidArguments(result))
       /\ \A sh \in good :
            LET start == ParseU64(SubSeq(v, sh[1] + 1, sh[2] - 1)).val
                end == ParseU64(SubSeq(v, sh[2] + 1, Len(v))).val
            IN /\ result.value.seqid = SubSeq(v, 1, sh[1] - 1)
               /\ NatSucc(result.value.start) = start
               /\ result.value.end = end
               /\ Range1Closed(result.value) =
                    {Ok(RangeInclusive(start, end))}
               /\ Range0HalfOpen(result.value) =
                    {Ok(Range(result.value.start, end))}
       /\ (v = LocusChr1_100_200 =>
             Range0HalfOpen(result.value) =
               {Ok(Range(<<9, 9>>, <<2, 0, 0>>))})

\* "chr1:100-200" was parsed to 99..200 on chr1.
C5_Witness ==
  /\ op = "try_from"
  /\ args.value = LocusChr1_100_200
  /\ result = Ok(GenomicRange(<<"c", "h", "r", "1">>, <<9, 9>>, <<2, 0, 0>>))

(***************************************************************************)
(* GFF3 attributes: deserialize_attributes.                                *)
(***************************************************************************)
\* IndexMap::insert on a map kept as the sequence of its entries in
\* iteration order: a key already present keeps its place and takes the new
\* value, a new key goes to the end.
IndexMapInsert(map, key, value) ==
  IF \E i \in DOMAIN map : map[i].key = key
  THEN [i \in DOMAIN map |->
          IF map[i].key = key THEN [key |-> key, value |-> value] ELSE map[i]]
  ELSE Append(map, [key |-> key, value |-> value])

\* The loop of a deserialize_attributes that only inserts keys not yet seen.
RECURSIVE InsertPiecesFirstWins(_, _)
InsertPiecesFirstWins(map, pieces) ==
  IF pieces = <<>> THEN map
  ELSE LET kv == SplitN2(Head(pieces), "=")
       IN InsertPiecesFirstWins(
            IF Len(kv) = 2 /\ \A i \in DOMAIN map : map[i].key # kv[1]
            THEN IndexMapInsert(map, kv[1], kv[2])
            ELSE map,
            Tail(pieces))

\* The loop of deserialize_attributes over the pieces still to come.
RECURSIVE InsertPieces(_, _)
InsertPieces(map, pieces) ==
  IF pieces = <<>> THEN map
  ELSE LET kv == SplitN2(Head(pieces), "=")
       IN InsertPieces(IF Len(kv) = 2
                       THEN IndexMapInsert(map, kv[1], kv[2])
                       ELSE map,
                       Tail(pieces))

\* deserialize_attributes, given the text of the field
DeserializeAttributes(s) == Ok(InsertPieces(<<>>, Split(s, ";")))

AttrAlphabet == {"a", "b", "="}

AttrPieces == TextsUpTo(AttrAlphabet, MaxPieceLen)

AttrExample ==
  <<"I", "D", "=", "g", "e", "n", "e", "1", ";",
    "N", "a", "m", "e", "=", "F", "o", "o", ";",
    "b", "a", "d", ";",
    "N", "a", "m", "e", "=", "B", "a", "r">>

AttrSamples ==
  { AttrExample,
    <<"a", "=", "a", ";", "b", "=", "b", ";", "a", "=", "b", "=", "a">> }

AttrTexts ==
  {Join(ps, ";") : ps \in UNION {[1..k -> AttrPieces] : k \in 1..MaxPieces}}
    \cup AttrSamples

InitAttr ==
  /\ op = "none"
  /\ args \in [s : AttrTexts]
  /\ result = NoResult
  /\ held = {}

ParseAttributes ==
  /\ op = "none"
  /\ op' = "deserialize_attributes"
  /\ result' = DeserializeAttributes(args.s)
  /\ UNCHANGED <<args, held>>

NextAttr == ParseAttributes

SpecAttr == InitAttr /\ [][NextAttr]_vars

\* The pieces of s between ';', each named by the position before its first
\* character, that contain '='.
KeyedPieces(s) ==
  LET cuts == {0} \cup {i \in DOMAIN s : s[i] = ";"} \cup {Len(s) + 1}
      NextCut(lo) == CHOOSE hi \in cuts : hi > lo /\ \A c \in cuts : c <= lo \/ c >= hi
      PieceAt(lo) == SubSeq(s, lo + 1, NextCut(lo) - 1)
  IN { [at |-> lo,
        key |-> SubSeq(PieceAt(lo), 1, FirstIndex(PieceAt(lo), "=") - 1),
        value |-> SubSeq(PieceAt(lo), FirstIndex(PieceAt(lo), "=") + 1,
                         Len(PieceAt(lo)))] :
       lo \in {c \in cuts \ {Len(s) + 1} :
                 \E i \in (c + 1)..(NextCut(c) - 1) : s[i] = "="} }

TxtOf_ID == <<"I", "D">>
TxtOf_gene1 == <<"g", "e", "n", "e", "1">>
TxtOf_Name == <<"N", "a", "m", "e">>
TxtOf_Bar == <<"B", "a", "r">>

\* C7: attribute parsing never fails; the keys of the mapping, in iteration
\* order, are the distinct keys of the pieces containing '=' in order of
\* first occurrence, and each key has the value of its last occurrence; a
\* piece without '=' adds nothing.
C7_Attributes ==
  op = "deserialize_attributes" =>
    /\ result.tag = "Ok"
    /\ LET map == result.value
           keyed == KeyedPieces(args.s)
           Occurrences(k) == {p.at : p \in {q \in keyed : q.key = k}}
           First(k) == CHOOSE at \in Occurrences(k) :
                         \A o \in Occurrences(k) : at <= o
           LastPiece(k) == CHOOSE p \in keyed :
                             /\ p.key = k
                             /\ \A o \in Occurrences(k) : o <= p.at
       IN /\ {map[i].key : i \in DOMAIN map} = {p.key : p \in keyed}
          /\ \A i, j \in DOMAIN map :
               i < j => /\ map[i].key # map[j].key
                        /\ First(map[i].key) < First(map[j].key)
          /\ \A i \in DOMAIN map :
               map[i].value = LastPiece(map[i].key).value
    /\ (args.s = AttrExample =>
          result.value = << [key |-> TxtOf_ID, value |-> TxtOf_gene1],
                            [key |-> TxtOf_Name, value |-> TxtOf_Bar] >>)

\* A key given twice with another key in between kept its first place and
\* took its last value, and a piece without '=' was dropped.
C7_Witness ==
  /\ op = "deserialize_attributes"
  /\ args.s = AttrExample
  /\ Len(result.value) = 2
  /\ result.value[2] = [key |-> TxtOf_Name, value |-> TxtOf_Bar]

====
